---- MODULE Spec2Model ----
(***************************************************************************)
(* MicroPaper settlement and trading engine (python-service).              *)
(*                                                                         *)
(* The model follows app/routes/market.py: create_order, settle_note,      *)
(* match_orders and match_orders_endpoint, over the tables of              *)
(* app/models/database.py (orders, investor_holdings, trades,              *)
(* note_issuances, wallet_verifications).  One note is modelled; every     *)
(* query of the handlers is filtered by that note's id.                    *)
(*                                                                         *)
(* A row's primary key is its index in the table's sequence.  created_at   *)
(* of an order is the time of the transaction that inserted it, one        *)
(* transaction per order, hence ascending with the order id.               *)
(***************************************************************************)
EXTENDS Integers, Sequences, FiniteSets, TLC

\* ------------------------------------------------------------------ bounds
\* Orders stored for the note (create_order refuses nothing on count; the
\* model stops accepting orders at this many rows).
MaxOrders == 3

\* Orders stored in the longer order books of SpecBook.
MaxBook == 4

\* Order amounts a client sends (OrderCreate.amount is an unconstrained int).
AmountInputs == {-1, 1, 2}

\* Python None (Order.price, Order.filled_at, a wallet's tier or jurisdiction).
None == -1

\* Limit prices a client sends; None is a market order.
PriceInputs == {None}

\* Orders stored in the order books of SpecMatch.
MaxMatch == 4

\* Order amounts of SpecOrders: below, at and above the minimum subscription.
OrderAmounts == {1, 2, 3}

\* The inputs of SpecBook.
BookWallets == {"w1", "w2"}
BookAmounts == {1, 2}
BookPrices == {None, 1}

\* The inputs of SpecPrice: a note of 500 units, orders of half and of all
\* of it, at market and at two limit prices.
PriceAmounts == {250, 500}
LimitPrices == {None, 11500, 12000}

\* ------------------------------------------------------- enumerations
PENDING == "pending"
FILLED == "filled"
CANCELLED == "cancelled"
REJECTED == "rejected"
OrderStatusEnum == {PENDING, FILLED, CANCELLED, REJECTED}

BUY == "buy"
SELL == "sell"
OrderSideEnum == {BUY, SELL}

OPEN == "open"
CLOSED == "closed"
SETTLED == "settled"
OfferingStatusEnum == {OPEN, CLOSED, SETTLED}

\* Par price used by settlement and by a trade of two market orders.
ParPrice == 10000

\* --------------------------------------------------- wallet directory
\* wallet_verifications rows (read-only for the engine).  "w5" has no row.
Wallets == {"w1", "w2", "w3", "w4", "w5"}

WalletVerification ==
    [w \in {"w1", "w2", "w3", "w4"} |->
        CASE w = "w1" -> [is_verified |-> TRUE,  investor_tier |-> <<"a","c","c">>, jurisdiction |-> <<"U","S">>]
          [] w = "w2" -> [is_verified |-> TRUE,  investor_tier |-> <<>>, jurisdiction |-> <<>>]
          [] w = "w3" -> [is_verified |-> TRUE,  investor_tier |-> <<"R","e","t","a","i","l">>, jurisdiction |-> <<"u","s">>]
          [] w = "w4" -> [is_verified |-> FALSE, investor_tier |-> <<"a","c","c">>, jurisdiction |-> <<"S","G">>]]

\* -------------------------------------------------------------- state
VARIABLES
    note,       \* the note_issuances row: amount, min_subscription_amount, offering_status
    orders,     \* orders table, by id
    holdings,   \* investor_holdings table, by id
    trades,     \* trades table, by id
    now,        \* the clock: the timestamp the next run reads
    last,       \* the last operation and its HTTP response
    sess,       \* per request in flight: the database session (rows read, rows staged)
    base,       \* the committed rows when the requests now in flight began
    call        \* the last call of a calculator function: its arguments and result

vars == <<note, orders, holdings, trades, now, last, sess, base, call>>

\* The request handlers that can be in flight at once.
Requests == {"r1", "r2"}

\* ------------------------------------------------------------ helpers
\* Min that returns the larger argument.
MinTakesLarger(a, b) == IF a <= b THEN b ELSE a

Min(a, b) == IF a <= b THEN a ELSE b

RECURSIVE SumSeq(_)
SumSeq(s) == IF s = <<>> THEN 0 ELSE Head(s) + SumSeq(Tail(s))

\* The row ids of a table, ascending.
Ids(s) == [i \in 1..Len(s) |-> i]

\* --------------------------------------------------------- strings
\* Tier and jurisdiction strings are sequences of characters, so that
\* str.lower() and str.upper() are computed and not assumed.
LowerOf == [c \in {"U", "S", "G", "R", "E", "T", "A", "I", "L"} |->
              CASE c = "U" -> "u" [] c = "S" -> "s" [] c = "G" -> "g"
                [] c = "R" -> "r" [] c = "E" -> "e" [] c = "T" -> "t"
                [] c = "A" -> "a" [] c = "I" -> "i" [] c = "L" -> "l"]

UpperOf == [c \in {"u", "s", "g", "r", "e", "t", "a", "i", "l"} |->
              CASE c = "u" -> "U" [] c = "s" -> "S" [] c = "g" -> "G"
                [] c = "r" -> "R" [] c = "e" -> "E" [] c = "t" -> "T"
                [] c = "a" -> "A" [] c = "i" -> "I" [] c = "l" -> "L"]

\* str.lower() that leaves the string as it is.
lowerUnchanged(str) == str

lower(str) == [i \in 1..Len(str) |-> IF str[i] \in DOMAIN LowerOf THEN LowerOf[str[i]] ELSE str[i]]
upper(str) == [i \in 1..Len(str) |-> IF str[i] \in DOMAIN UpperOf THEN UpperOf[str[i]] ELSE str[i]]

\* An eligibility rule that admits every investor.
EligibleAlways(wallet_tier, wallet_jurisdiction) == TRUE

\* compliance_checks.validate_investment_eligibility; a missing (None or
\* empty) string is the empty sequence.
validate_investment_eligibility(wallet_tier, wallet_jurisdiction) ==
    IF wallet_tier = <<>> \/ wallet_jurisdiction = <<>>
    THEN TRUE
    ELSE LET tier == lower(wallet_tier)
             jurisdiction == upper(wallet_jurisdiction)
         IN  ~(jurisdiction = <<"U", "S">> /\ tier = <<"r", "e", "t", "a", "i", "l">>)

\* --------------------------------------------------------- create_order
\* TotalHoldings without the wallet filter of the query.
TotalHoldingsAnyWallet(hold, w) ==
    SumSeq([i \in 1..Len(hold) |-> hold[i].quantity_held])

\* Sum of quantity_held over the wallet's lots (func.sum(...) or 0).
TotalHoldings(hold, w) ==
    SumSeq([i \in 1..Len(hold) |->
              IF hold[i].wallet_address = w THEN hold[i].quantity_held ELSE 0])

\* CreateOrderStatus without the multiple-of-minimum check of open notes.
CreateOrderStatusNoMultipleCheck(w, side, amount, nt, hold) ==
    IF side \notin OrderSideEnum THEN 400
    ELSE IF side = BUY
    THEN IF w \notin DOMAIN WalletVerification \/ ~WalletVerification[w].is_verified
         THEN 403
         ELSE IF /\ WalletVerification[w].investor_tier # <<>>
                 /\ WalletVerification[w].jurisdiction # <<>>
                 /\ ~validate_investment_eligibility(WalletVerification[w].investor_tier,
                                                     WalletVerification[w].jurisdiction)
         THEN 403
         ELSE IF nt.offering_status = OPEN /\ amount < nt.min_subscription_amount
         THEN 400
         ELSE 200
    ELSE IF TotalHoldings(hold, w) < amount THEN 400
         ELSE IF w \notin DOMAIN WalletVerification THEN 500
         ELSE 200

\* The HTTP status create_order ends with; 200 means the order is stored.
CreateOrderStatus(w, side, amount, nt, hold) ==
    IF side \notin OrderSideEnum THEN 400
    ELSE IF side = BUY
    THEN IF w \notin DOMAIN WalletVerification \/ ~WalletVerification[w].is_verified
         THEN 403
         ELSE IF /\ WalletVerification[w].investor_tier # <<>>
                 /\ WalletVerification[w].jurisdiction # <<>>
                 /\ ~validate_investment_eligibility(WalletVerification[w].investor_tier,
                                                     WalletVerification[w].jurisdiction)
         THEN 403
         ELSE IF /\ nt.offering_status = OPEN
                 /\ \/ amount < nt.min_subscription_amount
                    \/ amount % nt.min_subscription_amount # 0
         THEN 400
         ELSE 200
    ELSE IF TotalHoldings(hold, w) < amount THEN 400
         \* orders.investor_wallet is a foreign key into wallet_verifications:
         \* the INSERT of an order of a wallet without a row fails at commit.
         ELSE IF w \notin DOMAIN WalletVerification THEN 500
         ELSE 200

\* The detail of the HTTPException create_order raises ("" when it stores
\* the order).
CreateOrderDetail(w, side, amount, nt, hold) ==
    IF side \notin OrderSideEnum THEN "invalid side"
    ELSE IF side = BUY
    THEN IF w \notin DOMAIN WalletVerification \/ ~WalletVerification[w].is_verified
         THEN "not verified"
         ELSE IF /\ WalletVerification[w].investor_tier # <<>>
                 /\ WalletVerification[w].jurisdiction # <<>>
                 /\ ~validate_investment_eligibility(WalletVerification[w].investor_tier,
                                                     WalletVerification[w].jurisdiction)
         THEN "not eligible"
         ELSE IF nt.offering_status = OPEN /\ amount < nt.min_subscription_amount
         THEN "below minimum"
         ELSE IF nt.offering_status = OPEN /\ amount % nt.min_subscription_amount # 0
         THEN "not a multiple"
         ELSE ""
    ELSE IF TotalHoldings(hold, w) < amount THEN "insufficient holdings"
         ELSE IF w \notin DOMAIN WalletVerification THEN "failed to create order"
         ELSE ""

NewOrder(w, side, amount, price) ==
    [investor_wallet |-> w, amount |-> amount, side |-> side, price |-> price,
     status |-> PENDING, filled_at |-> None]

\* ---------------------------------------------------------- settle_note
\* PendingIds without the status filter of the query.
PendingIdsAnyStatus(ords) == [i \in 1..Len(ords) |-> i]

PendingIds(ords) == SelectSeq(Ids(ords), LAMBDA i : ords[i].status = PENDING)

\* The orders settlement reads: every PENDING order of the note.
SettlePending(ords) == PendingIds(ords)

total_subscribed(ords) ==
    LET p == SettlePending(ords) IN SumSeq([k \in 1..Len(p) |-> ords[p[k]].amount])

SettleDetail(nt) ==
    IF nt.offering_status = SETTLED THEN "already settled" ELSE "not fully subscribed"

\* SettleStatus without the subscription check.
SettleStatusNoSubscriptionCheck(nt, ords) ==
    IF nt.offering_status = SETTLED THEN 400 ELSE 200

\* SettleStatus without the already-settled check.
SettleStatusNoSettledCheck(nt, ords) ==
    IF total_subscribed(ords) < nt.amount THEN 400 ELSE 200

\* The HTTP status settle_note ends with.
SettleStatus(nt, ords) ==
    IF nt.offering_status = SETTLED THEN 400
    ELSE IF total_subscribed(ords) < nt.amount THEN 400
    ELSE 200

SettleHolding(o, t) ==
    [wallet_address |-> o.investor_wallet, quantity_held |-> o.amount,
     acquisition_price |-> ParPrice, acquired_at |-> t]

\* SettleResult that allocates no more than the offering: it fills the
\* pending orders, in order, while the filled total stays within note.amount.
SettleResultCapped(nt, ords, hold, t) ==
    LET p == SettlePending(ords)
        upto(k) == SumSeq([j \in 1..k |-> ords[p[j]].amount])
        q == SelectSeq([k \in 1..Len(p) |-> k], LAMBDA k : upto(k) <= nt.amount)
    IN
    [note     |-> [nt EXCEPT !.offering_status = SETTLED],
     orders   |-> [i \in 1..Len(ords) |->
                     IF \E k \in 1..Len(q) : p[q[k]] = i
                     THEN [ords[i] EXCEPT !.status = FILLED, !.filled_at = t]
                     ELSE ords[i]],
     holdings |-> hold \o [k \in 1..Len(q) |-> SettleHolding(ords[p[q[k]]], t)],
     orders_filled    |-> Len(q),
     holdings_created |-> Len(q)]

\* The rows a successful settlement writes, from the rows it read.
SettleResult(nt, ords, hold, t) ==
    LET p == SettlePending(ords) IN
    [note     |-> [nt EXCEPT !.offering_status = SETTLED],
     orders   |-> [i \in 1..Len(ords) |->
                     IF \E k \in 1..Len(p) : p[k] = i
                     THEN [ords[i] EXCEPT !.status = FILLED, !.filled_at = t]
                     ELSE ords[i]],
     holdings |-> hold \o [k \in 1..Len(p) |-> SettleHolding(ords[p[k]], t)],
     orders_filled    |-> Len(p),
     holdings_created |-> Len(p)]

\* --------------------------------------------------------- match_orders
\* A price test that admits every sell order.
PriceMatchesAlways(buy_order, sell_order) == TRUE

\* The price test of the candidate loop (market.py 676-686).
PriceMatches(buy_order, sell_order) ==
    IF buy_order.price # None /\ sell_order.price # None
    THEN buy_order.price >= sell_order.price
    ELSE IF buy_order.price = None THEN TRUE
    ELSE IF sell_order.price = None THEN TRUE
    ELSE FALSE

\* sort key of matching_sells: (price or 0, created_at); created_at ascends
\* with the order id.
SellBefore(ords, i, j) ==
    LET ki == IF ords[i].price # None THEN ords[i].price ELSE 0
        kj == IF ords[j].price # None THEN ords[j].price ELSE 0
    IN  ki < kj \/ (ki = kj /\ i < j)

\* matching_sells of one buy order, sorted; sell_orders is in created_at order.
MatchingSells(ords, sell_orders, b) ==
    SortSeq(SelectSeq(sell_orders,
                      LAMBDA s : /\ ords[s].status = PENDING
                                 /\ PriceMatches(ords[b], ords[s])),
            LAMBDA i, j : SellBefore(ords, i, j))

\* sum(t.quantity for t in executed_trades if t.sell_order_id == sell_order.id)
ExecutedAgainstSell(executed, s) ==
    SumSeq([k \in 1..Len(executed) |->
              IF executed[k].sell_order_id = s THEN executed[k].quantity ELSE 0])

\* A trade price that is always the par price.
TradePricePar(buy_order, sell_order) == ParPrice

\* A trade price that prefers the buy order's limit price.
TradePriceBuyFirst(buy_order, sell_order) ==
    IF buy_order.price # None THEN buy_order.price
    ELSE IF sell_order.price # None THEN sell_order.price
    ELSE ParPrice

\* trade_price (market.py 711-718).
TradePrice(buy_order, sell_order) ==
    IF sell_order.price # None THEN sell_order.price
    ELSE IF buy_order.price # None THEN buy_order.price
    ELSE ParPrice

\* The lots of a wallet ordered by acquired_at ascending (ties by id).
LotsOf(hold, w) ==
    SortSeq(SelectSeq(Ids(hold), LAMBDA i : hold[i].wallet_address = w),
            LAMBDA i, j : \/ hold[i].acquired_at < hold[j].acquired_at
                          \/ (hold[i].acquired_at = hold[j].acquired_at /\ i < j))

\* The FIFO decrement loop over seller_holdings (market.py 746-754).
RECURSIVE DecrementSeller(_, _, _, _)
DecrementSeller(hold, lots, k, remaining_to_decrement) ==
    IF k > Len(lots) \/ remaining_to_decrement <= 0 THEN hold
    ELSE IF hold[lots[k]].quantity_held > 0
    THEN LET decrement_amount == Min(remaining_to_decrement, hold[lots[k]].quantity_held)
         IN  DecrementSeller(
                 [hold EXCEPT ![lots[k]].quantity_held = @ - decrement_amount],
                 lots, k + 1, remaining_to_decrement - decrement_amount)
    ELSE DecrementSeller(hold, lots, k + 1, remaining_to_decrement)

\* A buyer's lot update that opens a new lot for every trade.
IncrementBuyerNewLot(hold, w, trade_quantity, trade_price, t) ==
    Append(hold, [wallet_address |-> w, quantity_held |-> trade_quantity,
                  acquisition_price |-> trade_price, acquired_at |-> t])

\* The buyer's lot update (market.py 756-779): the lot with the latest
\* acquired_at, or a new lot at the trade price.
IncrementBuyer(hold, w, trade_quantity, trade_price, t) ==
    LET lots == LotsOf(hold, w) IN
    IF lots # <<>>
    THEN [hold EXCEPT ![lots[Len(lots)]].quantity_held = @ + trade_quantity]
    ELSE Append(hold, [wallet_address |-> w, quantity_held |-> trade_quantity,
                       acquisition_price |-> trade_price, acquired_at |-> t])

\* sell_filled_quantity of market.py 790-793: executed_trades already holds
\* the trade being processed when the sum is taken.
SellFilledQuantity(executed, s, trade_quantity) ==
    ExecutedAgainstSell(executed, s) + trade_quantity

\* One iteration of the inner loop that trades: st is the session state
\* [orders, holdings, executed]; returns the state after the trade.
TradeStep(st, b, s, remaining_buy_amount, sell_remaining, t) ==
    LET buy_order      == st.orders[b]
        sell_order     == st.orders[s]
        trade_quantity == Min(remaining_buy_amount, sell_remaining)
        trade_price    == TradePrice(buy_order, sell_order)
        trade == [buyer_wallet |-> buy_order.investor_wallet,
                  seller_wallet |-> sell_order.investor_wallet,
                  quantity |-> trade_quantity, price |-> trade_price,
                  buy_order_id |-> b, sell_order_id |-> s, timestamp |-> t]
        executed == Append(st.executed, trade)
        hold1 == DecrementSeller(st.holdings, LotsOf(st.holdings, sell_order.investor_wallet),
                                 1, trade_quantity)
        hold2 == IncrementBuyer(hold1, buy_order.investor_wallet, trade_quantity, trade_price, t)
        ords1 == IF remaining_buy_amount - trade_quantity <= 0
                 THEN [st.orders EXCEPT ![b].status = FILLED, ![b].filled_at = t]
                 ELSE st.orders
        ords2 == IF SellFilledQuantity(executed, s, trade_quantity) >= sell_order.amount
                 THEN [ords1 EXCEPT ![s].status = FILLED, ![s].filled_at = t]
                 ELSE ords1
    IN  [orders |-> ords2, holdings |-> hold2, executed |-> executed]

\* for sell_order in matching_sells (market.py 694-797).
RECURSIVE InnerLoop(_, _, _, _, _, _)
InnerLoop(st, b, matching_sells, k, remaining_buy_amount, t) ==
    IF k > Len(matching_sells) \/ remaining_buy_amount <= 0 THEN st
    ELSE LET s == matching_sells[k]
             sell_remaining == st.orders[s].amount - ExecutedAgainstSell(st.executed, s)
         IN  IF sell_remaining <= 0
             THEN InnerLoop(st, b, matching_sells, k + 1, remaining_buy_amount, t)
             ELSE InnerLoop(TradeStep(st, b, s, remaining_buy_amount, sell_remaining, t),
                            b, matching_sells, k + 1,
                            remaining_buy_amount - Min(remaining_buy_amount, sell_remaining), t)

\* for buy_order in buy_orders (market.py 664-797).
RECURSIVE OuterLoop(_, _, _, _, _)
OuterLoop(st, buy_orders, sell_orders, k, t) ==
    IF k > Len(buy_orders) THEN st
    ELSE LET b == buy_orders[k] IN
         IF st.orders[b].status # PENDING
         THEN OuterLoop(st, buy_orders, sell_orders, k + 1, t)
         ELSE OuterLoop(InnerLoop(st, b, MatchingSells(st.orders, sell_orders, b), 1,
                                  st.orders[b].amount, t),
                        buy_orders, sell_orders, k + 1, t)

\* match_orders on the rows the session reads: all_orders are the PENDING
\* orders by created_at; returns the session's rows and the trades added.
match_orders(ords, hold, t) ==
    LET all_orders  == PendingIds(ords)
        buy_orders  == SelectSeq(all_orders, LAMBDA i : ords[i].side = BUY)
        sell_orders == SelectSeq(all_orders, LAMBDA i : ords[i].side = SELL)
    IN  OuterLoop([orders |-> ords, holdings |-> hold, executed |-> <<>>],
                  buy_orders, sell_orders, 1, t)

\* ------------------------------------------------------------- actions
\* The last operation and what it answered: the HTTP status, the error
\* detail, and the counts of the response body (orders_filled or
\* trades_executed, holdings_created).
Response(op, code, detail, n1, n2) ==
    [op |-> op, code |-> code, detail |-> detail, count |-> n1, created |-> n2]

\* The note rows the runs start from: the offering is open or closed.
NoteRows ==
    {[amount |-> 2, min_subscription_amount |-> 2, offering_status |-> st] :
        st \in {OPEN, CLOSED}}

\* The committed rows, as one record.
Snapshot ==
    [note |-> note, orders |-> orders, holdings |-> holdings, trades |-> trades, now |-> now]

NoRows == [orders |-> <<>>, holdings |-> <<>>]
NoStaged == [orders |-> <<>>, holdings |-> <<>>, executed |-> <<>>, note_status |-> ""]

\* A handler with no request: no session.
Idle == [pc |-> "idle", op |-> "none", read |-> NoRows, staged |-> NoStaged,
         t |-> 0, code |-> 0, wrote |-> FALSE]

\* No calculator function was called.
NoCall == [fn |-> "none", args |-> <<>>, result |-> 0]

Init ==
    /\ note \in NoteRows
    /\ orders = <<>>
    /\ holdings = <<>>
    /\ trades = <<>>
    /\ now = 1
    /\ last = Response("none", 0, "", 0, 0)
    /\ sess = [r \in Requests |-> Idle]
    /\ base = [since |-> {}, db |-> Snapshot]
    /\ call = NoCall

\* POST /order: create_order.  limit bounds the rows of the orders table.
CreateOrder(w, side, amount, price, limit) ==
    LET code == CreateOrderStatus(w, side, amount, note, holdings) IN
    /\ Len(orders) < limit
    /\ IF code = 200
       THEN orders' = Append(orders, NewOrder(w, side, amount, price))
       ELSE orders' = orders
    /\ last' = Response("order", code, CreateOrderDetail(w, side, amount, note, holdings), 0, 0)
    /\ sess' = [r \in Requests |-> Idle]
    /\ UNCHANGED <<note, holdings, trades, now, call>>

\* POST /settle/{note_id}: settle_note, the whole transaction.
SettleNote ==
    LET code == SettleStatus(note, orders)
        res  == SettleResult(note, orders, holdings, now)
    IN  /\ IF code = 200
           THEN /\ note' = res.note
                /\ orders' = res.orders
                /\ holdings' = res.holdings
                /\ now' = now + 1
                /\ last' = Response("settle", 200, "settled",
                                    res.orders_filled, res.holdings_created)
           ELSE /\ last' = Response("settle", code, SettleDetail(note), 0, 0)
                /\ UNCHANGED <<note, orders, holdings, now>>
        /\ UNCHANGED <<trades, sess, base, call>>

\* POST /match/{note_id}: match_orders_endpoint, the whole transaction.
MatchOrders ==
    LET res == match_orders(orders, holdings, now) IN
    /\ orders' = res.orders
    /\ holdings' = res.holdings
    /\ trades' = trades \o res.executed
    /\ now' = IF res.executed # <<>> THEN now + 1 ELSE now
    /\ last' = Response("match", 200, "", Len(res.executed), 0)
    /\ UNCHANGED <<note, sess, base, call>>

\* An order leaves PENDING outside the engine (cancellation or rejection).
CancelOrder(i, st) ==
    /\ orders[i].status = PENDING
    /\ orders' = [orders EXCEPT ![i].status = st]
    /\ last' = Response("cancel", 0, "", 0, 0)
    /\ UNCHANGED <<note, holdings, trades, now, sess, base, call>>

\* ------------------------------------------------------ specifications
\* Spec: orders of every wallet and amount, settlement, matching and
\* cancellation, each run as one transaction after another.
Next ==
    \/ \E w \in Wallets, side \in OrderSideEnum, amount \in AmountInputs, price \in PriceInputs :
          CreateOrder(w, side, amount, price, MaxOrders) /\ UNCHANGED base
    \/ SettleNote
    \/ MatchOrders
    \/ \E i \in 1..Len(orders) : CancelOrder(i, CANCELLED)

Spec == Init /\ [][Next]_vars

\* SpecBook: longer order books of the verified wallets, with limit prices.
NextBook ==
    \/ \E w \in BookWallets, side \in OrderSideEnum, amount \in BookAmounts, price \in BookPrices :
          CreateOrder(w, side, amount, price, MaxBook) /\ UNCHANGED base
    \/ SettleNote
    \/ MatchOrders

SpecBook == Init /\ [][NextBook]_vars

\* SpecMatch: one wallet subscribes, then places buy and sell orders at
\* market and at a limit price, so that a run produces several trades.
NextMatch ==
    \/ \E side \in OrderSideEnum, amount \in BookAmounts, price \in BookPrices :
          CreateOrder("w1", side, amount, price, MaxMatch) /\ UNCHANGED base
    \/ SettleNote
    \/ MatchOrders

SpecMatch == Init /\ [][NextMatch]_vars

\* SpecPriority: the order books of SpecMatch with one more order, so that
\* two buys meet two sells after the subscription.
NextPriority ==
    \/ \E side \in OrderSideEnum, amount \in BookAmounts, price \in BookPrices :
          CreateOrder("w1", side, amount, price, MaxMatch + 1) /\ UNCHANGED base
    \/ SettleNote
    \/ MatchOrders

SpecPriority == Init /\ [][NextPriority]_vars

\* SpecPrice: one wallet subscribes to a note of 500 units, then places buy
\* and sell orders at market and at two limit prices.
PriceNoteRows ==
    {[amount |-> 500, min_subscription_amount |-> 250, offering_status |-> st] :
        st \in {OPEN, CLOSED}}

InitPrice ==
    /\ note \in PriceNoteRows
    /\ orders = <<>>
    /\ holdings = <<>>
    /\ trades = <<>>
    /\ now = 1
    /\ last = Response("none", 0, "", 0, 0)
    /\ sess = [r \in Requests |-> Idle]
    /\ base = [since |-> {}, db |-> Snapshot]
    /\ call = NoCall

NextPrice ==
    \/ \E side \in OrderSideEnum, amount \in PriceAmounts, price \in LimitPrices :
          CreateOrder("w1", side, amount, price, MaxMatch) /\ UNCHANGED base
    \/ SettleNote
    \/ MatchOrders

SpecPrice == InitPrice /\ [][NextPrice]_vars

\* SpecLots: the two verified wallets subscribe to a note of 500 units in
\* lots of 250 or 500, then trade it with market orders.
NextLots ==
    \/ \E w \in BookWallets, side \in OrderSideEnum, amount \in PriceAmounts :
          CreateOrder(w, side, amount, None, MaxMatch + 1) /\ UNCHANGED base
    \/ SettleNote
    \/ MatchOrders

SpecLots == InitPrice /\ [][NextLots]_vars

\* SpecOrders: the verified wallets place orders below, at and above the
\* minimum subscription, before and after the settlement.
NextOrders ==
    \/ \E w \in BookWallets, side \in OrderSideEnum, amount \in OrderAmounts, price \in PriceInputs :
          CreateOrder(w, side, amount, price, MaxOrders) /\ UNCHANGED base
    \/ SettleNote
    \/ MatchOrders

SpecOrders == Init /\ [][NextOrders]_vars

\* SpecTerminal: orders of the verified wallets that leave PENDING by a
\* fill, a cancellation or a rejection.
NextTerminal ==
    \/ \E w \in BookWallets, side \in OrderSideEnum, amount \in BookAmounts, price \in PriceInputs :
          CreateOrder(w, side, amount, price, MaxOrders) /\ UNCHANGED base
    \/ SettleNote
    \/ MatchOrders
    \/ \E i \in 1..Len(orders), st \in {CANCELLED, REJECTED} : CancelOrder(i, st)

SpecTerminal == Init /\ [][NextTerminal]_vars

\* ------------------------------------------- requests as transactions
\* A request runs in its own database session: it reads committed rows,
\* stages its writes in the session, and db.commit() writes them; any
\* exception rolls the session back.  Two handlers run at once.
InFlight(r) == sess[r].pc \in {"commit", "refresh"}
NoneInFlight == \A r \in Requests : ~InFlight(r)

\* Opens the session of request r.
CanBegin(r) == sess[r].pc \in {"idle", "done"} /\ (NoneInFlight \/ r \notin base.since)

BaseAfterBegin(r) ==
    IF NoneInFlight THEN [since |-> {r}, db |-> Snapshot]
    ELSE [base EXCEPT !.since = @ \cup {r}]

\* The sessions once request r has begun with session record s: the
\* answers of the requests that ended before it are delivered.
SessAfterBegin(r, s) ==
    [q \in Requests |-> IF q = r THEN s ELSE IF NoneInFlight THEN Idle ELSE sess[q]]

Done(op, code, wrote) ==
    [pc |-> "done", op |-> op, read |-> NoRows, staged |-> NoStaged,
     t |-> 0, code |-> code, wrote |-> wrote]

\* match_orders_endpoint up to db.commit(): the note is found, match_orders
\* reads the PENDING orders and the holdings and stages trades and updates.
BeginMatch(r) ==
    LET res == match_orders(orders, holdings, now) IN
    /\ CanBegin(r)
    /\ sess' = SessAfterBegin(r,
                  [pc |-> "commit", op |-> "match",
                   read |-> [orders |-> orders, holdings |-> holdings],
                   staged |-> [orders |-> res.orders, holdings |-> res.holdings,
                               executed |-> res.executed, note_status |-> ""],
                   t |-> IF res.executed # <<>> THEN now ELSE 0,
                   code |-> 0, wrote |-> FALSE])
    /\ base' = BaseAfterBegin(r)
    /\ UNCHANGED <<note, orders, holdings, trades, now, last, call>>

\* settle_note up to db.commit(): the checks, then the staged holdings,
\* order updates and note status.
BeginSettle(r) ==
    LET code == SettleStatus(note, orders)
        res  == SettleResult(note, orders, holdings, now)
    IN  /\ CanBegin(r)
        /\ IF code = 200
           THEN sess' = SessAfterBegin(r,
                              [pc |-> "commit", op |-> "settle",
                               read |-> [orders |-> orders, holdings |-> holdings],
                               staged |-> [orders |-> res.orders, holdings |-> res.holdings,
                                           executed |-> <<>>,
                                           note_status |-> res.note.offering_status],
                               t |-> now, code |-> 0, wrote |-> FALSE])
           ELSE sess' = SessAfterBegin(r, Done("settle", code, FALSE))
        /\ base' = BaseAfterBegin(r)
        /\ UNCHANGED <<note, orders, holdings, trades, now, last, call>>

\* The flush of a session: an UPDATE per row the session changed, setting
\* the changed columns to the session's values, and an INSERT per new row.
FlushOrders(db_orders, read, staged) ==
    [i \in 1..Len(db_orders) |->
        IF i <= Len(read) /\ staged[i] # read[i]
        THEN [db_orders[i] EXCEPT !.status = staged[i].status,
                                  !.filled_at = staged[i].filled_at]
        ELSE db_orders[i]]

FlushHoldings(db_holdings, read, staged) ==
    [i \in 1..Len(db_holdings) |->
        IF i <= Len(read) /\ staged[i] # read[i]
        THEN [db_holdings[i] EXCEPT !.quantity_held = staged[i].quantity_held]
        ELSE db_holdings[i]]
    \o SubSeq(staged, Len(read) + 1, Len(staged))

\* await db.commit()
Commit(r) ==
    LET s == sess[r] IN
    /\ s.pc = "commit"
    /\ orders' = FlushOrders(orders, s.read.orders, s.staged.orders)
    /\ holdings' = FlushHoldings(holdings, s.read.holdings, s.staged.holdings)
    /\ trades' = trades \o s.staged.executed
    /\ note' = IF s.op = "settle"
               THEN [note EXCEPT !.offering_status = s.staged.note_status] ELSE note
    /\ sess' = [sess EXCEPT ![r] =
                  IF s.op = "match" /\ s.staged.executed # <<>>
                  THEN [Done(s.op, 0, TRUE) EXCEPT !.pc = "refresh"]
                  ELSE Done(s.op, 200, TRUE)]
    \* the clock has passed every timestamp a committed run wrote
    /\ now' = IF s.t >= now THEN s.t + 1 ELSE now
    /\ UNCHANGED <<last, base, call>>

\* for trade in executed_trades: await db.refresh(trade); then the response.
Refresh(r) ==
    /\ sess[r].pc = "refresh"
    /\ sess' = [sess EXCEPT ![r] = Done("match", 200, TRUE)]
    /\ UNCHANGED <<note, orders, holdings, trades, now, last, base, call>>

\* A database call of the handler raises: except Exception rolls the
\* session back and answers 500.
Fail(r) ==
    /\ InFlight(r)
    /\ sess' = [sess EXCEPT ![r] = Done(sess[r].op, 500, sess[r].wrote)]
    /\ UNCHANGED <<note, orders, holdings, trades, now, last, base, call>>

\* One run as a single transaction on the committed rows db: what the
\* handler of op leaves when nothing else runs between its reads and commit.
RunAlone(db, op) ==
    IF op = "settle"
    THEN IF SettleStatus(db.note, db.orders) = 200
         THEN LET res == SettleResult(db.note, db.orders, db.holdings, db.now) IN
              [note |-> res.note, orders |-> res.orders, holdings |-> res.holdings,
               trades |-> db.trades, now |-> db.now + 1]
         ELSE db
    ELSE LET res == match_orders(db.orders, db.holdings, db.now) IN
         [note |-> db.note, orders |-> res.orders, holdings |-> res.holdings,
          trades |-> db.trades \o res.executed,
          now |-> IF res.executed # <<>> THEN db.now + 1 ELSE db.now]

\* SpecConc: two handlers serve match and settlement requests at once;
\* orders arrive while no run is in flight.
NextConc ==
    \/ \E w \in BookWallets, side \in OrderSideEnum, amount \in BookAmounts, price \in PriceInputs :
          /\ NoneInFlight
          /\ CreateOrder(w, side, amount, price, MaxOrders)
          /\ base' = [since |-> {}, db |-> [Snapshot EXCEPT !.orders = orders']]
    \/ \E r \in Requests : BeginMatch(r)
    \/ \E r \in Requests : BeginSettle(r)
    \/ \E r \in Requests : Commit(r)
    \/ \E r \in Requests : Refresh(r)
    \/ \E r \in Requests : Fail(r)

SpecConc == Init /\ [][NextConc]_vars

\* ------------------------------------------------- calculator functions
\* Tier and jurisdiction strings a wallet row can hold; <<>> is a missing
\* value (None or the empty string).
TierInputs ==
    {<<>>, <<"r","e","t","a","i","l">>, <<"R","e","t","a","i","l">>,
     <<"R","E","T","A","I","L">>, <<"r","E","t","A","i","L">>,
     <<"r","e","t","a","i">>, <<"r","e","t","a","i","l","s">>, <<"a","c","c">>}

JurisdictionInputs ==
    {<<>>, <<"U","S">>, <<"u","s">>, <<"U","s">>, <<"u","S">>, <<"S","G">>,
     <<"s","g">>, <<"U">>, <<"U","S","A">>}

\* max(a, b) of Python.
Max(a, b) == IF a >= b THEN a ELSE b

\* int(n / d) of Python for d > 0: the quotient truncated toward zero.
IntDiv(n, d) == IF n >= 0 THEN n \div d ELSE -((-n) \div d)

\* n / d rounded to the nearest integer, ties to even (d > 0).
RoundHalfEven(n, d) ==
    LET q == n \div d
        r == n % d
    IN  IF 2 * r < d THEN q
        ELSE IF 2 * r > d THEN q + 1
        ELSE IF q % 2 = 0 THEN q ELSE q + 1

\* func.sum(CollateralAsset.valuation_cents) over the active assets, or 0.
CollateralCoverage(collateral_assets) ==
    SumSeq([i \in 1..Len(collateral_assets) |->
              IF collateral_assets[i].status = "active"
              THEN collateral_assets[i].valuation_cents ELSE 0])

\* The guarantees' sum without the cap at face_value.
GuaranteeCoverageUncapped(face_value, guarantees) ==
    SumSeq([i \in 1..Len(guarantees) |->
              IF guarantees[i].enforcement_status = "active"
              THEN IntDiv(face_value * guarantees[i].coverage_percent, 100) ELSE 0])

\* The sum over the active guarantees of int(face_value * coverage_percent
\* / 100), capped at face_value.
GuaranteeCoverage(face_value, guarantees) ==
    Min(SumSeq([i \in 1..Len(guarantees) |->
                  IF guarantees[i].enforcement_status = "active"
                  THEN IntDiv(face_value * guarantees[i].coverage_percent, 100) ELSE 0]),
        face_value)

\* The waterfall without the floor of its last layer.
UncoveredExposureNoFloor(face_value, collateral_coverage, guarantee_coverage, insurance_pool_claim) ==
    Max(0, Max(0, face_value - collateral_coverage) - guarantee_coverage) - insurance_pool_claim

\* uncovered_exposure: collateral first, then guarantees, then insurance.
UncoveredExposure(face_value, collateral_coverage, guarantee_coverage, insurance_pool_claim) ==
    LET remaining_after_collateral == Max(0, face_value - collateral_coverage)
        remaining_after_guarantees == Max(0, remaining_after_collateral - guarantee_coverage)
    IN  Max(0, remaining_after_guarantees - insurance_pool_claim)

\* round(protection_percent, 2), in hundredths of a percent (8000 is 80.00).
ProtectionPercent(face_value, uncovered_exposure) ==
    IF face_value > 0
    THEN RoundHalfEven((face_value - uncovered_exposure) * 10000, face_value)
    ELSE 0

\* RiskEngine.calculate_protection_waterfall for a note that exists, on the
\* rows its queries read.
calculate_protection_waterfall(face_value, collateral_assets, guarantees, insurance) ==
    LET collateral_coverage  == CollateralCoverage(collateral_assets)
        guarantee_coverage   == GuaranteeCoverage(face_value, guarantees)
        insurance_pool_claim == SumSeq(insurance)
        uncovered_exposure   == UncoveredExposure(face_value, collateral_coverage,
                                                  guarantee_coverage, insurance_pool_claim)
    IN  [face_value |-> face_value,
         collateral_coverage |-> collateral_coverage,
         guarantee_coverage |-> guarantee_coverage,
         insurance_pool_claim |-> insurance_pool_claim,
         uncovered_exposure |-> uncovered_exposure,
         protection_percent |-> ProtectionPercent(face_value, uncovered_exposure)]

\* The rows of the risk tables for the note.
FaceValues == {0, 3, 700, 100000}

CollateralRows ==
    {<<>>,
     <<[valuation_cents |-> 40000, status |-> "active"]>>,
     <<[valuation_cents |-> 40000, status |-> "active"],
       [valuation_cents |-> 500, status |-> "liquidated"]>>,
     <<[valuation_cents |-> 1, status |-> "active"], [valuation_cents |-> 1, status |-> "active"]>>,
     <<[valuation_cents |-> 150000, status |-> "active"]>>}

GuaranteeRows ==
    {<<>>,
     <<[coverage_percent |-> 30, enforcement_status |-> "active"]>>,
     <<[coverage_percent |-> 60, enforcement_status |-> "active"],
       [coverage_percent |-> 60, enforcement_status |-> "active"]>>,
     <<[coverage_percent |-> 33, enforcement_status |-> "active"],
       [coverage_percent |-> 50, enforcement_status |-> "triggered"]>>}

InsuranceRows == {<<>>, <<10000>>, <<1, 1>>, <<200000>>}

\* A call of RiskEngine.calculate_protection_waterfall.
CallWaterfall ==
    \E face_value \in FaceValues, collateral_assets \in CollateralRows,
       guarantees \in GuaranteeRows, insurance \in InsuranceRows :
       /\ call' = [fn |-> "calculate_protection_waterfall",
                   args |-> <<face_value, collateral_assets, guarantees, insurance>>,
                   result |-> calculate_protection_waterfall(face_value, collateral_assets,
                                                            guarantees, insurance)]
       /\ UNCHANGED <<note, orders, holdings, trades, now, last, sess, base>>

\* ------------------------------------------------------------- Decimal
\* decimal.Decimal under the default context: 28 significant digits,
\* ROUND_HALF_EVEN.  A non-negative Decimal is [int, frac]: its integer part
\* and the digits after the decimal point.
Precision == 28

RECURSIVE DigitsOf(_)
DigitsOf(n) == IF n < 10 THEN <<n>> ELSE Append(DigitsOf(n \div 10), n % 10)

RECURSIVE ToNat(_)
ToNat(ds) ==
    IF ds = <<>> THEN 0 ELSE ToNat(SubSeq(ds, 1, Len(ds) - 1)) * 10 + ds[Len(ds)]

\* Decimal(n) of a non-negative int.
DecimalOf(n) == [int |-> n, frac |-> <<>>]

RECURSIVE LeadingZeros(_)
LeadingZeros(ds) ==
    IF ds = <<>> \/ ds[1] # 0 THEN 0 ELSE 1 + LeadingZeros(Tail(ds))

\* Adds one unit in the place of digit i of frac (i = 0: to the integer part).
RECURSIVE IncrementAt(_, _)
IncrementAt(x, i) ==
    IF i = 0 THEN [x EXCEPT !.int = @ + 1]
    ELSE IF x.frac[i] = 9 THEN IncrementAt([x EXCEPT !.frac[i] = 0], i - 1)
    ELSE [x EXCEPT !.frac[i] = @ + 1]

\* The context rounding of an exact result: Precision significant digits,
\* half to even.
RoundSig(x) ==
    LET k == IF x.int > 0 THEN Precision - Len(DigitsOf(x.int))
             ELSE LeadingZeros(x.frac) + Precision
    IN  IF Len(x.frac) <= k THEN x
        ELSE LET kept  == [int |-> x.int, frac |-> SubSeq(x.frac, 1, k)]
                 first == x.frac[k + 1]
                 rest  == \E i \in (k + 2)..Len(x.frac) : x.frac[i] # 0
                 odd   == (IF k > 0 THEN x.frac[k] ELSE x.int) % 2 = 1
             IN  IF first > 5 \/ (first = 5 /\ (rest \/ odd))
                 THEN IncrementAt(kept, k) ELSE kept

\* The digits after the point of r / d (r < d), up to the context precision;
\* sig counts the significant digits produced so far.
RECURSIVE DivFrac(_, _, _, _)
DivFrac(r, d, frac, sig) ==
    IF r = 0 \/ sig >= Precision THEN [frac |-> frac, rem |-> r]
    ELSE LET digit == (r * 10) \div d IN
         DivFrac((r * 10) % d, d, Append(frac, digit),
                 IF sig > 0 \/ digit > 0 THEN sig + 1 ELSE 0)

\* Decimal(n) / Decimal(d) for ints n >= 0, d > 0.
DecimalDiv(n, d) ==
    LET q    == n \div d
        res  == DivFrac(n % d, d, <<>>, IF q > 0 THEN Len(DigitsOf(q)) ELSE 0)
        x    == [int |-> q, frac |-> res.frac]
        k    == Len(res.frac)
        odd  == (IF k > 0 THEN res.frac[k] ELSE q) % 2 = 1
    IN  IF 2 * res.rem > d \/ (2 * res.rem = d /\ odd) THEN IncrementAt(x, k) ELSE x

\* The digits of a Decimal without the point.
Coefficient(x) == (IF x.int = 0 THEN <<>> ELSE DigitsOf(x.int)) \o x.frac

\* The digits of ds * m: schoolbook multiplication by the int m, from the
\* last digit, acc the digits done.
RECURSIVE MulDigits(_, _, _, _, _)
MulDigits(ds, m, i, carry, acc) ==
    IF i = 0 THEN (IF carry = 0 THEN acc ELSE DigitsOf(carry) \o acc)
    ELSE LET v == ds[i] * m + carry IN
         MulDigits(ds, m, i - 1, v \div 10, <<v % 10>> \o acc)

\* The Decimal with the digits ds, the last scale of them after the point.
FromCoefficient(ds, scale) ==
    LET padded == IF Len(ds) < scale THEN [i \in 1..(scale - Len(ds)) |-> 0] \o ds ELSE ds
        n      == Len(padded) - scale
    IN  [int |-> ToNat(SubSeq(padded, 1, n)), frac |-> SubSeq(padded, n + 1, Len(padded))]

\* x * y: the exact product, rounded by the context.
DecimalMul(x, y) ==
    RoundSig(FromCoefficient(
        MulDigits(Coefficient(y), ToNat(Coefficient(x)), Len(Coefficient(y)), 0, <<>>),
        Len(x.frac) + Len(y.frac)))

\* x + y for an integral x: the exact sum, rounded by the context.
DecimalAdd(x, y) == RoundSig([int |-> x.int + y.int, frac |-> y.frac])

\* int(x.quantize(Decimal('1'), rounding=ROUND_DOWN))
QuantizeDown(x) == x.int

\* ------------------------------------------------------ yield calculator
Returned(v) == [raises |-> "", value |-> v]
Raised(exc) == [raises |-> exc, value |-> 0]

\* YieldCalculator.calculate_maturity_value
calculate_maturity_value(principal_cents, interest_rate_bps, days_to_maturity) ==
    IF principal_cents <= 0 THEN Returned(0)
    ELSE IF interest_rate_bps < 0 THEN Raised("ValueError")
    ELSE IF days_to_maturity < 0 THEN Raised("ValueError")
    ELSE LET rate_decimal   == DecimalDiv(interest_rate_bps, 10000)
             days_decimal   == DecimalDiv(days_to_maturity, 360)
             interest_cents == DecimalMul(DecimalMul(DecimalOf(principal_cents), rate_decimal),
                                          days_decimal)
             maturity_value == DecimalAdd(DecimalOf(principal_cents), interest_cents)
         IN  Returned(QuantizeDown(maturity_value))

\* The arguments of calculate_maturity_value.
PrincipalInputs == {-5, 0, 1, 72, 720, 100000}
RateInputs == {-1, 0, 1, 500, 2000}
DaysInputs == {-1, 0, 1, 90, 360, 475}

\* A call of YieldCalculator.calculate_maturity_value.
CallMaturityValue ==
    \E principal_cents \in PrincipalInputs, interest_rate_bps \in RateInputs,
       days_to_maturity \in DaysInputs :
       /\ call' = [fn |-> "calculate_maturity_value",
                   args |-> <<principal_cents, interest_rate_bps, days_to_maturity>>,
                   result |-> calculate_maturity_value(principal_cents, interest_rate_bps,
                                                       days_to_maturity)]
       /\ UNCHANGED <<note, orders, holdings, trades, now, last, sess, base>>

\* Long products are computed on limbs of four digits.
LimbBase == 10000

\* The limbs of a digit sequence, the first limb padded with zeros.
Limbs(ds) ==
    LET p == [i \in 1..((4 - (Len(ds) % 4)) % 4) |-> 0] \o ds IN
    [k \in 1..(Len(p) \div 4) |->
        p[4 * k - 3] * 1000 + p[4 * k - 2] * 100 + p[4 * k - 1] * 10 + p[4 * k]]

\* The digits of a limb sequence.
DigitsOfLimbs(ls) ==
    [i \in 1..(4 * Len(ls)) |->
        (ls[(i + 3) \div 4] \div <<1000, 100, 10, 1>>[((i - 1) % 4) + 1]) % 10]

\* The column sums of the schoolbook product of two limb sequences: column
\* k holds the products lx[i] * ly[j] with i + j = k + 1.
Columns(lx, ly) ==
    [k \in 1..(Len(lx) + Len(ly) - 1) |->
        SumSeq([i \in 1..Len(lx) |->
                  IF k + 1 - i \in 1..Len(ly) THEN lx[i] * ly[k + 1 - i] ELSE 0])]

\* The limbs of the number with column sums cols: the carries taken from
\* the last column, acc the limbs done.
RECURSIVE CarryLimbs(_, _, _, _)
CarryLimbs(cols, i, carry, acc) ==
    IF i = 0
    THEN (IF carry = 0 THEN acc
          ELSE CarryLimbs(cols, 0, carry \div LimbBase, <<carry % LimbBase>> \o acc))
    ELSE LET v == cols[i] + carry IN
         CarryLimbs(cols, i - 1, v \div LimbBase, <<v % LimbBase>> \o acc)

\* The digits of cx * cy for digit sequences of any length.
MulLong(cx, cy) ==
    LET cols == Columns(Limbs(cx), Limbs(cy)) IN
    DigitsOfLimbs(CarryLimbs(cols, Len(cols), 0, <<>>))

\* x * y for coefficients of any length: the exact product, rounded by the
\* context.
DecimalMulLong(x, y) ==
    RoundSig(FromCoefficient(MulLong(Coefficient(x), Coefficient(y)),
                             Len(x.frac) + Len(y.frac)))

\* x - Decimal('1'): the sign and the magnitude of the difference.
DecimalSubOne(x) ==
    IF x.int >= 1
    THEN [neg |-> FALSE, mag |-> RoundSig([int |-> x.int - 1, frac |-> x.frac])]
    ELSE IF \A i \in 1..Len(x.frac) : x.frac[i] = 0
    THEN [neg |-> TRUE, mag |-> [int |-> 1, frac |-> x.frac]]
    ELSE LET j == CHOOSE k \in 1..Len(x.frac) :
                     x.frac[k] # 0 /\ \A i \in (k + 1)..Len(x.frac) : x.frac[i] = 0
         IN  [neg |-> TRUE,
              mag |-> RoundSig([int |-> 0,
                                frac |-> [i \in 1..Len(x.frac) |->
                                            IF i < j THEN 9 - x.frac[i]
                                            ELSE IF i = j THEN 10 - x.frac[i] ELSE 0]])]

\* x * Decimal('100'): the point moves two places.
TimesHundred(x) ==
    LET f == x.frac \o <<0, 0>> IN
    [int |-> x.int * 100 + f[1] * 10 + f[2], frac |-> SubSeq(x.frac, 3, Len(x.frac))]

\* Significant bits of a double.
FloatBits == 53

\* Digits after a tie digit within which a Decimal converts to the same
\* double as the tie (10^-20 is below half an ulp of every tie >= 0.005).
TieDigits == 18

RECURSIVE BitLength(_)
BitLength(n) == IF n = 0 THEN 0 ELSE 1 + BitLength(n \div 2)

\* The binary digits of r / d after the point (r < d) up to the bits of a
\* double: the remainder and the last bit produced.
RECURSIVE FracBits(_, _, _, _)
FracBits(r, d, sig, last_bit) ==
    IF r = 0 \/ sig >= FloatBits THEN [rem |-> r, last |-> last_bit]
    ELSE LET bit == IF 2 * r >= d THEN 1 ELSE 0 IN
         FracBits(2 * r - bit * d, d, IF sig > 0 \/ bit = 1 THEN sig + 1 ELSE 0, bit)

\* float(n / d) compared with n / d (round to nearest, ties to even): -1 when
\* the double is below the value, 0 when it is the value, 1 when above.
FloatSide(n, d) ==
    LET res == FracBits(n % d, d, BitLength(n \div d), (n \div d) % 2) IN
    IF res.rem = 0 THEN 0
    ELSE IF 2 * res.rem > d THEN 1
    ELSE IF 2 * res.rem < d THEN -1
    ELSE IF res.last = 1 THEN 1 ELSE -1

\* round(float(x), 2) of a non-negative Decimal x, in hundredths.  The
\* result is decided by the third decimal, except next to a tie h.xx5, where
\* float(x) is the double of the tie and round() sees that double.
RoundFloat2(x) ==
    LET y    == TimesHundred(x)
        h    == y.int
        tail == y.frac
        near == /\ tail # <<>>
                /\ \/ tail[1] = 5 /\ \A i \in 2..Min(Len(tail), TieDigits) : tail[i] = 0
                   \/ /\ tail[1] = 4 /\ Len(tail) >= TieDigits
                      /\ \A i \in 2..TieDigits : tail[i] = 9
        side == FloatSide(10 * h + 5, 1000)
    IN  IF near
        THEN (IF side > 0 \/ (side = 0 /\ h % 2 = 1) THEN h + 1 ELSE h)
        ELSE IF tail # <<>> /\ tail[1] >= 5 THEN h + 1 ELSE h

\* The year fraction on a 360-day year.
YearFraction360(days_to_maturity) == DecimalDiv(360, days_to_maturity)

\* Decimal('365') / Decimal(days_to_maturity)
YearFraction(days_to_maturity) == DecimalDiv(365, days_to_maturity)

\* YieldCalculator.calculate_apy, in hundredths of a percent (507 is the
\* float 5.07); maturity_value_cents >= 0.
calculate_apy(principal_cents, maturity_value_cents, days_to_maturity) ==
    IF principal_cents <= 0 THEN 0
    ELSE IF days_to_maturity <= 0 THEN 0
    ELSE LET return_ratio      == DecimalDiv(maturity_value_cents, principal_cents)
             excess            == DecimalSubOne(return_ratio)
             annualized_return == DecimalMulLong(excess.mag, YearFraction(days_to_maturity))
             apy_percentage    == TimesHundred(annualized_return)
         IN  (IF excess.neg THEN -1 ELSE 1) * RoundFloat2(apy_percentage)

\* The arguments of calculate_apy.
ApyPrincipals == {-1, 0, 3000, 20000, 100000}
ApyMaturityValues == {0, 4, 201, 99000, 100000, 100005, 100007, 100015, 101250, 105125, 105135}
ApyDays == {-3, 0, 7, 90, 365}

\* A call of YieldCalculator.calculate_apy.
CallApy ==
    \E principal_cents \in ApyPrincipals, maturity_value_cents \in ApyMaturityValues,
       days_to_maturity \in ApyDays :
       /\ call' = [fn |-> "calculate_apy",
                   args |-> <<principal_cents, maturity_value_cents, days_to_maturity>>,
                   result |-> calculate_apy(principal_cents, maturity_value_cents,
                                            days_to_maturity)]
       /\ UNCHANGED <<note, orders, holdings, trades, now, last, sess, base>>

\* A call of validate_investment_eligibility.
CallEligibility ==
    \E wallet_tier \in TierInputs, wallet_jurisdiction \in JurisdictionInputs :
       /\ call' = [fn |-> "validate_investment_eligibility",
                   args |-> <<wallet_tier, wallet_jurisdiction>>,
                   result |-> validate_investment_eligibility(wallet_tier, wallet_jurisdiction)]
       /\ UNCHANGED <<note, orders, holdings, trades, now, last, sess, base>>

\* SpecCalc: the calculator functions are called on their inputs.
NextCalc ==
    \/ CallEligibility
    \/ CallWaterfall
    \/ CallMaturityValue

SpecCalc == Init /\ [][NextCalc]_vars

\* SpecApy: calculate_apy is called on its inputs.
NextApy == CallApy

SpecApy == Init /\ [][NextApy]_vars

\* ================================================================ claims
\* Quantity of all trades recorded with order i as buy_order_id or sell_order_id.
TradedAgainst(trs, i) ==
    SumSeq([k \in 1..Len(trs) |->
              IF trs[k].buy_order_id = i \/ trs[k].sell_order_id = i
              THEN trs[k].quantity ELSE 0])

\* The ids of the orders with status PENDING, ascending.
PendingOrderIds(ords) == SelectSeq([i \in 1..Len(ords) |-> i], LAMBDA i : ords[i].status = PENDING)

AmountOfPending(ords, side_set) ==
    SumSeq([i \in 1..Len(ords) |->
              IF ords[i].status = PENDING /\ ords[i].side \in side_set
              THEN ords[i].amount ELSE 0])

\* C1: after any sequence of order creations and match runs executed one
\* after another, the quantity of all trades recorded against an order never
\* exceeds the order's amount.
C1_TradedWithinAmount ==
    \A i \in 1..Len(orders) : TradedAgainst(trades, i) <= orders[i].amount

\* C2: a match run leaves an order that was PENDING as FILLED, with
\* filled_at the run's timestamp, exactly when the all-time traded quantity
\* against it equals its amount, and PENDING otherwise; for buys and sells.
C2_FilledIffFullyTraded ==
    [][last'.op = "match" =>
          \A i \in 1..Len(orders) :
             orders[i].status = PENDING =>
                IF TradedAgainst(trades', i) = orders[i].amount
                THEN orders'[i].status = FILLED /\ orders'[i].filled_at = now
                ELSE orders'[i].status = PENDING]_vars

\* C3: in every reachable state every holding lot has quantity_held >= 0.
C3_HoldingsNonNegative ==
    \A i \in 1..Len(holdings) : holdings[i].quantity_held >= 0

\* C6: a settlement of a note whose PENDING orders' amounts sum to less than
\* note.amount fails (HTTP 400, "not fully subscribed" unless the note is
\* already settled) and leaves orders, holdings and the note unchanged.
C6_InsufficientSubscriptionRejected ==
    [][(last'.op = "settle" /\ AmountOfPending(orders, OrderSideEnum) < note.amount) =>
          /\ last'.code = 400
          /\ (note.offering_status # SETTLED => last'.detail = "not fully subscribed")
          /\ orders' = orders
          /\ holdings' = holdings
          /\ trades' = trades
          /\ note' = note]_vars

\* A settlement of an unsettled note was refused although orders are pending.
C6_Witness ==
    /\ last.op = "settle" /\ last.code = 400 /\ last.detail = "not fully subscribed"
    /\ note.offering_status # SETTLED
    /\ \E i \in 1..Len(orders) : orders[i].status = PENDING /\ orders[i].amount > 0

\* C7: settlement aggregates only the PENDING buy orders: it succeeds when
\* the pending buys cover note.amount, and it leaves every PENDING sell
\* order as it is, creating no lot for it.
C7_SettlementOnlyBuys ==
    [][last'.op = "settle" =>
          /\ (note.offering_status # SETTLED /\ AmountOfPending(orders, {BUY}) >= note.amount
                => last'.code = 200)
          /\ (last'.code = 200 => AmountOfPending(orders, {BUY}) >= note.amount)
          /\ \A i \in 1..Len(orders) :
                orders[i].status = PENDING /\ orders[i].side = SELL => orders'[i] = orders[i]
          /\ Len(holdings') - Len(holdings)
                <= Len(SelectSeq(PendingOrderIds(orders), LAMBDA i : orders[i].side = BUY))]_vars

\* C8: a successful settlement fills every pending order in full, also when
\* oversubscribed: each gets FILLED with filled_at the run time and one new
\* lot of its wallet with quantity_held = amount at price 10000; the note
\* becomes settled; orders_filled = holdings_created = number of those orders.
C8_SettlementFillsAll ==
    [][(last'.op = "settle" /\ last'.code = 200) =>
          LET p == PendingOrderIds(orders) IN
          /\ \A k \in 1..Len(p) :
                /\ orders'[p[k]] = [orders[p[k]] EXCEPT !.status = FILLED, !.filled_at = now]
                /\ Len(holdings') >= Len(holdings) + k
                /\ holdings'[Len(holdings) + k] =
                      [wallet_address |-> orders[p[k]].investor_wallet,
                       quantity_held |-> orders[p[k]].amount,
                       acquisition_price |-> 10000, acquired_at |-> now]
          /\ Len(holdings') = Len(holdings) + Len(p)
          /\ SubSeq(holdings', 1, Len(holdings)) = holdings
          /\ note'.offering_status = SETTLED
          /\ last'.count = Len(p)
          /\ last'.created = Len(p)]_vars

\* An oversubscribed note was settled: the lots created exceed note.amount.
C8_Witness ==
    /\ last.op = "settle" /\ last.code = 200 /\ last.count >= 2
    /\ note.offering_status = SETTLED
    /\ SumSeq([i \in 1..Len(holdings) |-> holdings[i].quantity_held]) > note.amount

\* C9: once offering_status is settled it never changes, and every later
\* settlement call fails without creating a holding or changing an order.
C9_SettledIsTerminal ==
    [][note.offering_status = SETTLED =>
          /\ note'.offering_status = SETTLED
          /\ (last'.op = "settle" =>
                /\ last'.code = 400
                /\ last'.detail = "already settled"
                /\ holdings' = holdings
                /\ orders' = orders)]_vars

\* A settled note with enough new pending orders was asked to settle again.
C9_Witness ==
    /\ note.offering_status = SETTLED
    /\ last.op = "settle" /\ last.code = 400 /\ last.detail = "already settled"
    /\ AmountOfPending(orders, OrderSideEnum) >= note.amount

Untimed(db) ==
    [note     |-> db.note,
     orders   |-> [i \in 1..Len(db.orders) |->
                     [db.orders[i] EXCEPT !.filled_at = IF @ = None THEN None ELSE 0]],
     holdings |-> [i \in 1..Len(db.holdings) |-> [db.holdings[i] EXCEPT !.acquired_at = 0]],
     trades   |-> [i \in 1..Len(db.trades) |-> [db.trades[i] EXCEPT !.timestamp = 0]]]

\* The requests since the rows base.db that were not rolled back.
Effective == {r \in base.since : sess[r].pc = "done" /\ ~(sess[r].code = 500 /\ ~sess[r].wrote)}

\* The rows the effective requests leave when run one after another.
SerialOutcomes ==
    IF Effective = {} THEN {Untimed(base.db)}
    ELSE UNION {
           IF Effective = {r}
           THEN {Untimed(RunAlone(base.db, sess[r].op))}
           ELSE {Untimed(RunAlone(RunAlone(base.db, sess[r].op), sess[q].op)) :
                    q \in Effective \ {r}}
           : r \in Effective}

\* C4: match and settlement runs for the same note are serialized: when
\* overlapping requests have ended, the stored rows are rows that running
\* the same requests one after another, in some order, produces.
C4_RunsSerialized ==
    (NoneInFlight /\ base.since # {}) => Untimed(Snapshot) \in SerialOutcomes

\* C5: a match or settlement run commits all of its effects or none: a run
\* that ends in an error leaves the stored orders, holdings, trades and note
\* exactly as before the run.
C5_FailedRunLeavesNothing ==
    \A r \in Requests :
       (NoneInFlight /\ base.since = {r} /\ sess[r].pc = "done" /\ sess[r].code # 200) =>
           /\ note = base.db.note
           /\ orders = base.db.orders
           /\ holdings = base.db.holdings
           /\ trades = base.db.trades

\* Quantity of the trades trs[from..] recorded against order i.
TradedSince(trs, from, i) ==
    TradedAgainst(SubSeq(trs, from, Len(trs)), i)

\* C11: a match run directly after a match run, with no order created or
\* cancelled in between, produces no trade and changes no order, holding or
\* trade; and a later run never trades again the quantity an order already
\* traded in earlier runs: what a run trades against an order is at most
\* the order's amount less what earlier runs traded against it.
C11_RerunIdempotent ==
    [][last'.op = "match" =>
          /\ (last.op = "match" =>
                 /\ last'.count = 0
                 /\ orders' = orders /\ holdings' = holdings /\ trades' = trades)
          /\ \A i \in 1..Len(orders) :
                TradedSince(trades', Len(trades) + 1, i) > 0 =>
                   TradedSince(trades', Len(trades) + 1, i)
                      <= orders[i].amount - TradedAgainst(trades, i)]_vars


C13_NoNonPositiveOrder ==
    \A i \in 1..Len(orders) : orders[i].amount > 0

\* The order a step stored, when it stored one.
Stored(ords, ords2) == ords2[Len(ords2)]

\* C14: a buy order on an open note is stored only when its amount is at
\* least min_subscription_amount and a multiple of it; a rejected order
\* stores nothing, and an accepted order is stored with status PENDING.
C14_MinimumSubscription ==
    [][/\ (Len(orders') > Len(orders) =>
             /\ orders' = Append(orders, Stored(orders, orders'))
             /\ Stored(orders, orders').status = PENDING
             /\ last'.op = "order" /\ last'.code = 200
             /\ (note.offering_status = OPEN /\ Stored(orders, orders').side = BUY =>
                    /\ Stored(orders, orders').amount >= note.min_subscription_amount
                    /\ Stored(orders, orders').amount % note.min_subscription_amount = 0))
       /\ (last'.op = "order" /\ last'.code # 200 => orders' = orders)]_vars

\* On an open note an order was stored and a buy that is not a multiple of
\* the minimum was refused.
C14_Witness ==
    /\ note.offering_status = OPEN
    /\ last.op = "order" /\ last.code = 400 /\ last.detail = "not a multiple"
    /\ Len(orders) >= 1

\* quantity_held summed over the lots of wallet w.
HeldBy(hold, w) ==
    SumSeq([i \in 1..Len(hold) |-> IF hold[i].wallet_address = w THEN hold[i].quantity_held ELSE 0])

\* C15: a sell order is stored only when the wallet's quantity_held summed
\* over all its lots is at least the order amount; otherwise it is rejected
\* and nothing is stored.
C15_SellNeedsHoldings ==
    [][/\ (Len(orders') > Len(orders) /\ Stored(orders, orders').side = SELL =>
             HeldBy(holdings, Stored(orders, orders').investor_wallet)
                >= Stored(orders, orders').amount)
       /\ (last'.op = "order" /\ last'.detail = "insufficient holdings" =>
             last'.code = 400 /\ orders' = orders)]_vars

\* A sell was refused for insufficient holdings although every wallet holds lots.
C15_Witness ==
    /\ last.op = "order" /\ last.code = 400 /\ last.detail = "insufficient holdings"
    /\ \A w \in BookWallets : HeldBy(holdings, w) > 0

\* Letters that differ only in case.
CasePairs ==
    {<<"u", "U">>, <<"s", "S">>, <<"g", "G">>, <<"r", "R">>, <<"e", "E">>,
     <<"t", "T">>, <<"a", "A">>, <<"i", "I">>, <<"l", "L">>}

\* The strings s and t are equal up to the case of their letters.
EqualsIgnoringCase(s, t) ==
    /\ Len(s) = Len(t)
    /\ \A i \in 1..Len(s) :
          s[i] = t[i] \/ <<s[i], t[i]>> \in CasePairs \/ <<t[i], s[i]>> \in CasePairs

\* Wallet w has a verified row that is not a US retail investor.
VerifiedAndEligible(w) ==
    /\ w \in DOMAIN WalletVerification
    /\ WalletVerification[w].is_verified
    /\ ~(/\ EqualsIgnoringCase(WalletVerification[w].investor_tier, <<"r", "e", "t", "a", "i", "l">>)
         /\ EqualsIgnoringCase(WalletVerification[w].jurisdiction, <<"U", "S">>))

\* C16: a buy order is stored only for a wallet that is KYC-verified and
\* eligible: a buy of an unknown, unverified or US-retail wallet is rejected
\* and stores nothing.
C16_BuyersVerifiedEligible ==
    [][/\ (Len(orders') > Len(orders) /\ Stored(orders, orders').side = BUY =>
             VerifiedAndEligible(Stored(orders, orders').investor_wallet))
       /\ (last'.op = "order" /\ last'.code = 403 => orders' = orders)]_vars

\* A buy of the US retail wallet was refused after an order had been stored.
C16_Witness ==
    /\ last.op = "order" /\ last.code = 403 /\ last.detail = "not eligible"
    /\ Len(orders) >= 1

\* C17: validate_investment_eligibility is false exactly when jurisdiction
\* equals "US" and tier equals "retail", both ignoring case; it is true for
\* every other combination and whenever tier or jurisdiction is missing.
C17_EligibilityRule ==
    call.fn = "validate_investment_eligibility" =>
       call.result =
          ~(/\ EqualsIgnoringCase(call.args[1], <<"r", "e", "t", "a", "i", "l">>)
            /\ EqualsIgnoringCase(call.args[2], <<"U", "S">>))

\* The rule refused a US retail investor written in another case.
C17_Witness ==
    /\ call.fn = "validate_investment_eligibility"
    /\ call.result = FALSE
    /\ call.args[1] # <<"r", "e", "t", "a", "i", "l">>
    /\ call.args[2] # <<"U", "S">>

\* C18: the risk waterfall deducts the layers in sequence: remaining1 =
\* max(0, face_value - collateral_coverage), remaining2 = max(0, remaining1 -
\* guarantee_coverage), uncovered = max(0, remaining2 - insurance_claim);
\* protection_percent is (face_value - uncovered)/face_value*100 rounded to 2
\* decimals, 0 if face_value <= 0.  Face 100000, collateral 40000, one 30%
\* guarantee and insurance 10000 give uncovered 20000 and 80.00 percent.
C18_Waterfall ==
    call.fn = "calculate_protection_waterfall" =>
       LET r  == call.result
           f  == r.face_value
           r1 == IF f - r.collateral_coverage > 0 THEN f - r.collateral_coverage ELSE 0
           r2 == IF r1 - r.guarantee_coverage > 0 THEN r1 - r.guarantee_coverage ELSE 0
           u  == IF r2 - r.insurance_pool_claim > 0 THEN r2 - r.insurance_pool_claim ELSE 0
           e  == r.protection_percent * f - (f - u) * 10000
       IN  /\ f = call.args[1]
           /\ r.uncovered_exposure = u
           /\ (f <= 0 => r.protection_percent = 0)
           /\ (f > 0 => 2 * e <= f /\ -2 * e <= f)
           /\ (/\ f = 100000
               /\ call.args[2] = <<[valuation_cents |-> 40000, status |-> "active"]>>
               /\ call.args[3] = <<[coverage_percent |-> 30, enforcement_status |-> "active"]>>
               /\ call.args[4] = <<10000>>
               => r.uncovered_exposure = 20000 /\ r.protection_percent = 8000)

\* The waterfall of the example was computed.
C18_Witness ==
    /\ call.fn = "calculate_protection_waterfall"
    /\ call.result.face_value = 100000
    /\ call.result.collateral_coverage = 40000
    /\ call.result.guarantee_coverage = 30000
    /\ call.result.insurance_pool_claim = 10000
    /\ call.result.uncovered_exposure = 20000

\* floor(principal * rate_bps * days / 3600000), the product split so that
\* every intermediate value stays within the machine integers of the check.
ExactInterest(principal_cents, interest_rate_bps, days_to_maturity) ==
    LET a == principal_cents * interest_rate_bps IN
    (a \div 3600000) * days_to_maturity + ((a % 3600000) * days_to_maturity) \div 3600000

\* C19: for principal > 0, rate_bps >= 0 and days >= 0 the maturity value is
\* principal + floor(principal * rate_bps * days / 3600000), exactly; it is
\* 101250 for (100000, 500, 90), and it is never below the principal.
C19_MaturityExact ==
    call.fn = "calculate_maturity_value" =>
        LET principal_cents   == call.args[1]
            interest_rate_bps == call.args[2]
            days_to_maturity  == call.args[3]
        IN  /\ (principal_cents > 0 /\ interest_rate_bps >= 0 /\ days_to_maturity >= 0) =>
                  /\ call.result.raises = ""
                  /\ call.result.value = principal_cents
                         + ExactInterest(principal_cents, interest_rate_bps, days_to_maturity)
                  /\ call.result.value >= principal_cents
            /\ call.args = <<100000, 500, 90>> => call.result.value = 101250

\* C20: the maturity value fails whenever rate_bps < 0 or days < 0, for every
\* principal (also a principal <= 0), and is 0 when principal <= 0 and both
\* rate_bps and days are non-negative.
C20_InvalidParameter ==
    call.fn = "calculate_maturity_value" =>
        LET principal_cents   == call.args[1]
            interest_rate_bps == call.args[2]
            days_to_maturity  == call.args[3]
        IN  /\ (interest_rate_bps < 0 \/ days_to_maturity < 0) =>
                  call.result.raises = "ValueError"
            /\ (principal_cents <= 0 /\ interest_rate_bps >= 0 /\ days_to_maturity >= 0) =>
                  call.result = Returned(0)

Abs(n) == IF n < 0 THEN -n ELSE n

RECURSIVE GCD(_, _)
GCD(a, b) == IF b = 0 THEN a ELSE GCD(b, a % b)

\* ((maturity_value / principal) - 1) * (365 / days) * 100 in hundredths
\* of a percent, as a fraction in lowest terms (principal > 0, days > 0).
ExactApy(principal_cents, maturity_value_cents, days_to_maturity) ==
    LET a  == maturity_value_cents - principal_cents
        g1 == GCD(Abs(a), principal_cents)
        g2 == GCD(3650000, days_to_maturity)
        a1 == a \div g1
        b1 == principal_cents \div g1
        c1 == 3650000 \div g2
        d1 == days_to_maturity \div g2
        g3 == GCD(Abs(a1), d1)
        g4 == GCD(c1, b1)
    IN  [num |-> (a1 \div g3) * (c1 \div g4), den |-> (b1 \div g4) * (d1 \div g3)]

\* The result of a calculate_apy call is the exact formula rounded to 2
\* decimals, and 0 when principal <= 0 or days <= 0.
ApyFollowsFormula ==
    LET principal_cents      == call.args[1]
        maturity_value_cents == call.args[2]
        days_to_maturity     == call.args[3]
        exact == ExactApy(principal_cents, maturity_value_cents, days_to_maturity)
    IN  /\ (principal_cents <= 0 \/ days_to_maturity <= 0) => call.result = 0
        /\ (principal_cents > 0 /\ days_to_maturity > 0) =>
              2 * Abs(call.result * exact.den - exact.num) <= exact.den

\* C21: apy equals ((maturity_value/principal) - 1) * (365/days) * 100
\* rounded to 2 decimals, and is 0.0 when principal <= 0 or days <= 0;
\* apy(100000, 101250, 90) is approximately 5.14.
C21_ApyAsStated ==
    call.fn = "calculate_apy" =>
        /\ ApyFollowsFormula
        /\ call.args = <<100000, 101250, 90>> => call.result \in 513..515

\* C21, amended: apy equals the formula rounded to 2 decimals, and is 0.0
\* when principal <= 0 or days <= 0; apy(100000, 101250, 90) is 5.07.
C21_Apy ==
    call.fn = "calculate_apy" =>
        /\ ApyFollowsFormula
        /\ call.args = <<100000, 101250, 90>> => call.result = 507

\* The apy of the example was computed.
C21_Witness ==
    /\ call.fn = "calculate_apy"
    /\ call.args = <<100000, 101250, 90>>
    /\ call.result = 507

\* The trades a step added.
NewTrades(trs, trs2) == SubSeq(trs2, Len(trs) + 1, Len(trs2))

\* C22: in a match run a buy trades with a sell only if the sell is PENDING
\* and the buy has no limit price, or the sell has none, or buy.price >=
\* sell.price; a limit buy priced below the limit price of every pending
\* sell produces no trade and stays PENDING.
C22_PriceCompatible ==
    [][last'.op = "match" =>
          /\ \A k \in 1..Len(NewTrades(trades, trades')) :
                LET buy_order  == orders[NewTrades(trades, trades')[k].buy_order_id]
                    sell_order == orders[NewTrades(trades, trades')[k].sell_order_id]
                IN  /\ buy_order.side = BUY /\ buy_order.status = PENDING
                    /\ sell_order.side = SELL /\ sell_order.status = PENDING
                    /\ \/ buy_order.price = None
                       \/ sell_order.price = None
                       \/ buy_order.price >= sell_order.price
          /\ \A b \in 1..Len(orders) :
                (/\ orders[b].side = BUY /\ orders[b].status = PENDING
                 /\ orders[b].price # None
                 /\ \A i \in 1..Len(orders) :
                       orders[i].side = SELL /\ orders[i].status = PENDING =>
                          orders[i].price # None /\ orders[b].price < orders[i].price)
                => /\ orders'[b] = orders[b]
                   /\ \A k \in 1..Len(NewTrades(trades, trades')) :
                         NewTrades(trades, trades')[k].buy_order_id # b]_vars

\* A run left a limit buy and a dearer limit sell pending, with no trade.
C22_Witness ==
    /\ last.op = "match" /\ last.count = 0
    /\ \E b \in 1..Len(orders), i \in 1..Len(orders) :
          /\ orders[b].side = BUY /\ orders[b].status = PENDING /\ orders[b].price # None
          /\ orders[i].side = SELL /\ orders[i].status = PENDING /\ orders[i].price # None
          /\ orders[b].price < orders[i].price

\* C23: every trade's price is the sell order's limit price if it has one,
\* else the buy order's limit price if it has one, else the par price 10000;
\* a buy at 12000 for 500 against a sell at 11500 for 500 yields exactly one
\* trade of quantity 500 at price 11500 and both orders become FILLED.
C23_TradePrice ==
    [][last'.op = "match" =>
          /\ \A k \in 1..Len(NewTrades(trades, trades')) :
                LET tr         == NewTrades(trades, trades')[k]
                    buy_order  == orders[tr.buy_order_id]
                    sell_order == orders[tr.sell_order_id]
                IN  tr.price = IF sell_order.price # None THEN sell_order.price
                               ELSE IF buy_order.price # None THEN buy_order.price
                               ELSE 10000
          /\ \A b \in 1..Len(orders), i \in 1..Len(orders) :
                (/\ orders[b] = [NewOrder(orders[b].investor_wallet, BUY, 500, 12000)
                                   EXCEPT !.status = PENDING]
                 /\ orders[i] = [NewOrder(orders[i].investor_wallet, SELL, 500, 11500)
                                   EXCEPT !.status = PENDING]
                 /\ \A j \in 1..Len(orders) : orders[j].status = PENDING => j \in {b, i})
                => /\ Len(NewTrades(trades, trades')) = 1
                   /\ NewTrades(trades, trades')[1].buy_order_id = b
                   /\ NewTrades(trades, trades')[1].sell_order_id = i
                   /\ NewTrades(trades, trades')[1].quantity = 500
                   /\ NewTrades(trades, trades')[1].price = 11500
                   /\ orders'[b].status = FILLED
                   /\ orders'[i].status = FILLED]_vars

\* The buy at 12000 and the sell at 11500, 500 units each, have traded.
C23_Witness ==
    /\ last.op = "match" /\ last.count = 1
    /\ trades # <<>>
    /\ trades[Len(trades)].quantity = 500 /\ trades[Len(trades)].price = 11500
    /\ orders[trades[Len(trades)].buy_order_id].price = 12000
    /\ orders[trades[Len(trades)].buy_order_id].status = FILLED
    /\ orders[trades[Len(trades)].sell_order_id].status = FILLED

\* Sell order i sorts before sell order j: by price ascending, no price
\* counting as 0, then by arrival.
SortsBefore(ords, i, j) ==
    LET pi == IF ords[i].price = None THEN 0 ELSE ords[i].price
        pj == IF ords[j].price = None THEN 0 ELSE ords[j].price
    IN  pi < pj \/ (pi = pj /\ i < j)

\* Buy order b and sell order i are price-compatible.
Compatible(ords, b, i) ==
    ords[b].price = None \/ ords[i].price = None \/ ords[b].price >= ords[i].price

\* C24: matching follows price-then-time priority: a run serves the buys in
\* arrival order, each buy takes its sells in ascending price order (no
\* price sorts as 0), ties by arrival, and a buy never trades with a sell
\* while a compatible pending sell that sorts earlier still has unmatched
\* remaining amount.
C24_PriceTimePriority ==
    [][last'.op = "match" =>
          LET run == NewTrades(trades, trades') IN
          /\ \A k \in 1..Len(run), l \in 1..Len(run) :
                k < l =>
                   /\ run[k].buy_order_id <= run[l].buy_order_id
                   /\ (run[k].buy_order_id = run[l].buy_order_id =>
                          SortsBefore(orders, run[k].sell_order_id, run[l].sell_order_id))
          /\ \A k \in 1..Len(run), i \in 1..Len(orders) :
                (/\ orders[i].side = SELL /\ orders[i].status = PENDING
                 /\ Compatible(orders, run[k].buy_order_id, i)
                 /\ SortsBefore(orders, i, run[k].sell_order_id))
                => orders[i].amount - TradedAgainst(SubSeq(trades', 1, Len(trades) + k - 1), i) <= 0]_vars

\* Quantity the trades trs record with wallet w as seller, and as buyer.
SoldBy(trs, w) ==
    SumSeq([k \in 1..Len(trs) |-> IF trs[k].seller_wallet = w THEN trs[k].quantity ELSE 0])

BoughtBy(trs, w) ==
    SumSeq([k \in 1..Len(trs) |-> IF trs[k].buyer_wallet = w THEN trs[k].quantity ELSE 0])

\* Lot i comes before lot j in the seller's FIFO order (acquired_at
\* ascending, rows of one acquired_at in row order).
OlderLot(hold, i, j) ==
    /\ hold[i].wallet_address = hold[j].wallet_address
    /\ \/ hold[i].acquired_at < hold[j].acquired_at
       \/ (hold[i].acquired_at = hold[j].acquired_at /\ i < j)

\* C25: the seller's lots are decremented oldest-first until the decrements
\* sum to exactly trade_quantity: over a match run, a wallet that sells and
\* does not buy loses exactly the quantity of its trades, none of its lots
\* grows, and a lot is reduced only when every older lot of the wallet is
\* at zero afterwards.
C25_SellerFifo ==
    [][last'.op = "match" =>
          LET run == NewTrades(trades, trades') IN
          \A w \in BookWallets :
             (SoldBy(run, w) > 0 /\ BoughtBy(run, w) = 0) =>
                /\ HeldBy(holdings', w) = HeldBy(holdings, w) - SoldBy(run, w)
                /\ \A j \in 1..Len(holdings) :
                      holdings[j].wallet_address = w =>
                         /\ holdings'[j].quantity_held <= holdings[j].quantity_held
                         /\ (holdings'[j].quantity_held < holdings[j].quantity_held =>
                                \A i \in 1..Len(holdings) :
                                   OlderLot(holdings, i, j) => holdings'[i].quantity_held = 0)]_vars

\* The lots (row numbers) of wallet w.
LotIds(hold, w) == {i \in 1..Len(hold) : hold[i].wallet_address = w}

\* The first trade of trs bought by wallet w.
FirstBought(trs, w) ==
    trs[CHOOSE k \in 1..Len(trs) :
           /\ trs[k].buyer_wallet = w
           /\ \A l \in 1..(k - 1) : trs[l].buyer_wallet # w]

\* C26: the buyer's holdings increase by exactly trade_quantity.  Over a
\* match run a buying wallet is credited every unit it bought; a wallet that
\* buys and does not sell gains exactly the quantity of its trades, in its
\* lot with the latest acquired_at if it had a lot (no lot with an earlier
\* acquired_at changes, no lot shrinks, no lot is added), and otherwise in
\* one new lot at the price of its first trade.
C26_BuyerLot ==
    [][last'.op = "match" =>
          LET run == NewTrades(trades, trades') IN
          \A w \in BookWallets :
             BoughtBy(run, w) > 0 =>
                /\ HeldBy(holdings', w) >= HeldBy(holdings, w) + BoughtBy(run, w) - SoldBy(run, w)
                /\ SoldBy(run, w) = 0 =>
                      /\ HeldBy(holdings', w) = HeldBy(holdings, w) + BoughtBy(run, w)
                      /\ IF LotIds(holdings, w) # {}
                         THEN /\ LotIds(holdings', w) = LotIds(holdings, w)
                              /\ \A i \in LotIds(holdings, w) :
                                    /\ holdings'[i].quantity_held >= holdings[i].quantity_held
                                    /\ (\E j \in LotIds(holdings, w) :
                                           holdings[j].acquired_at > holdings[i].acquired_at)
                                       => holdings'[i] = holdings[i]
                         ELSE \E i \in 1..Len(holdings') :
                                 /\ LotIds(holdings', w) = {i}
                                 /\ holdings'[i].quantity_held = BoughtBy(run, w)
                                 /\ holdings'[i].acquisition_price = FirstBought(run, w).price]_vars

\* A match run has just credited a buyer that held no lot with a new lot at
\* the trade price, and debited another wallet.
C26_Witness ==
    /\ last.op = "match" /\ last.count > 0
    /\ \E i \in 1..Len(holdings) :
          LET t == trades[Len(trades)] IN
          /\ t.buyer_wallet # t.seller_wallet
          /\ holdings[i].wallet_address = t.buyer_wallet
          /\ holdings[i].acquired_at = t.timestamp
          /\ holdings[i].quantity_held = t.quantity
          /\ holdings[i].acquisition_price = t.price

\* floor(face_value * coverage_percent / 100) for a percentage of 0..100.
FloorShare(face_value, coverage_percent) ==
    CHOOSE q \in 0..face_value :
       /\ 100 * q <= face_value * coverage_percent
       /\ face_value * coverage_percent < 100 * (q + 1)

\* C27: guarantee_coverage is min(face_value, the sum over the note's
\* active guarantees of floor(face_value * coverage_percent / 100)): only
\* guarantees with enforcement status active count, each is floored
\* separately, and the total is capped at face_value.
C27_GuaranteeCoverage ==
    call.fn = "calculate_protection_waterfall" =>
       LET f  == call.args[1]
           gs == call.args[3]
           total == SumSeq([i \in 1..Len(gs) |->
                              IF gs[i].enforcement_status = "active"
                              THEN FloorShare(f, gs[i].coverage_percent) ELSE 0])
       IN  call.result.guarantee_coverage = IF total < f THEN total ELSE f

\* Two active guarantees of 60% each on a face value of 100000 were capped.
C27_Witness ==
    /\ call.fn = "calculate_protection_waterfall"
    /\ call.args[1] = 100000
    /\ Len(call.args[3]) = 2
    /\ \A i \in 1..2 : call.args[3][i] = [coverage_percent |-> 60, enforcement_status |-> "active"]
    /\ call.result.guarantee_coverage = 100000

\* quantity_held summed over all lots of the note.
TotalHeld(hold) == SumSeq([i \in 1..Len(hold) |-> hold[i].quantity_held])

\* C28: a match run conserves units: the sum of quantity_held over all
\* wallets' lots for the note is the same after the run as before it.
C28_UnitsConserved ==
    [][last'.op = "match" => TotalHeld(holdings') = TotalHeld(holdings)]_vars

\* C29: every trade's price respects both limits: it is at most the buy
\* order's limit price when the buy order has one, and at least the sell
\* order's limit price when the sell order has one.
C29_PriceWithinLimits ==
    \A k \in 1..Len(trades) :
       LET buy_order  == orders[trades[k].buy_order_id]
           sell_order == orders[trades[k].sell_order_id]
       IN  /\ buy_order.price # None => trades[k].price <= buy_order.price
           /\ sell_order.price # None => trades[k].price >= sell_order.price

\* A limit buy has traded with a cheaper limit sell, below its own limit.
C29_Witness ==
    \E k \in 1..Len(trades) :
       /\ orders[trades[k].buy_order_id].price # None
       /\ orders[trades[k].sell_order_id].price # None
       /\ trades[k].price < orders[trades[k].buy_order_id].price
       /\ trades[k].price = orders[trades[k].sell_order_id].price

\* The amounts of wallet w's PENDING sell orders, summed.
PendingSellAmount(ords, w) ==
    SumSeq([i \in 1..Len(ords) |->
              IF ords[i].side = SELL /\ ords[i].status = PENDING /\ ords[i].investor_wallet = w
              THEN ords[i].amount ELSE 0])

\* C30: in every reachable state, for each wallet, the amounts of the
\* wallet's PENDING sell orders for the note sum to at most the wallet's
\* total quantity_held for the note.
C30_PendingSellsBacked ==
    \A w \in BookWallets : PendingSellAmount(orders, w) <= HeldBy(holdings, w)

====
